---------------------------- MODULE Spec2Model ----------------------------
(***************************************************************************)
(* Model of qiskit/opflow/evolutions/trotterizations/suzuki.py: the Suzuki *)
(* object (fields order, reps), its convert method and the recursion       *)
(* _recursive_expansion, run as an explicit call stack.                    *)
(*                                                                         *)
(* Scalars are kept as the expression the code evaluates: an evolution     *)
(* time is the operand's coefficient followed by the multiplications and   *)
(* divisions applied to it on the way down the recursion.  Two factors     *)
(* carry the same float exactly when they carry the same expression.       *)
(***************************************************************************)
EXTENDS Integers, Sequences, FiniteSets

\* ------------------------------------------------------------------ bounds
MaxTerms == 2
MaxReps == 2
MaxOrder == 6
RecursionLimit == 8

Orders == (0 - 1) .. MaxOrder
Coeffs == {1, 2}
TermPool == { [g |-> "X", w |-> 1], [g |-> "Z", w |-> 2] }

SeqsUpTo(S, n) == UNION { [1..m -> S] : m \in 1..n }

\* ------------------------------------------------------- scalar expressions
\* operator.coeff as handed to the top-level call
TopTime(coeff) == [base |-> coeff, path |-> << >>]

\* evo_time / 2
Half(evo_time) ==
    [evo_time EXCEPT !.path = Append(@, [op |-> "div_2", k |-> 2])]

\* evo_time * p_k, p_k = (4 - 4 ** (1 / (2 * expansion_order - 1))) ** -1
MulPk(evo_time, expansion_order) ==
    [evo_time EXCEPT !.path = Append(@, [op |-> "mul_p_k", k |-> expansion_order])]

MulOneMinus2Pk(evo_time, expansion_order) ==
    [evo_time EXCEPT !.path = Append(@, [op |-> "mul_1_minus_2_p_k", k |-> expansion_order])]

\* evo_time * (1 - 4 * p_k)
MulOneMinus4Pk(evo_time, expansion_order) ==
    [evo_time EXCEPT !.path = Append(@, [op |-> "mul_1_minus_4_p_k", k |-> expansion_order])]

\* evo_time / reps
DivReps(evo_time, r) == [num |-> evo_time, den |-> r]

\* op * scalar
OpMul(op, scalar) == [g |-> op.g, w |-> op.w, scalar |-> scalar]

\* op.exp_i()
ExpI(op) == [exp_i |-> op]

\* ------------------------------------------------------------ list helpers
\* list(reversed(l))
Reversed(l) == [i \in 1..Len(l) |-> l[Len(l) + 1 - i]]

EachRepeated(n, l) == [i \in 1..(n * Len(l)) |-> l[((i - 1) \div n) + 1]]

\* n * l on a Python list: n copies of l, one after the other
ListRepeat(n, l) == [i \in 1..(n * Len(l)) |-> l[((i - 1) % Len(l)) + 1]]

\* ------------------------------------------- _recursive_expansion, by case
BaseCaseBackwards(op_list, evo_time, r) ==
    [i \in 1..Len(op_list) |->
        ExpI(OpMul(op_list[Len(op_list) + 1 - i], DivReps(evo_time, r)))]

\* [(op * (evo_time / reps)).exp_i() for op in op_list]
BaseCase(op_list, evo_time, r) ==
    [i \in 1..Len(op_list) |-> ExpI(OpMul(op_list[i], DivReps(evo_time, r)))]

Order2ForwardFirst(half) == half \o Reversed(half)

\* list(reversed(half)) + half
Order2Result(half) == Reversed(half) \o half

HigherNoTrailingSide(side, middle) == side \o middle

\* side + middle + side
HigherResult(side, middle) == side \o middle \o side

\* the time handed to the order-1 call by the order-2 case
HalfTime(evo_time) == Half(evo_time)

\* the time handed to the side call
SideTime(evo_time, expansion_order) == MulPk(evo_time, expansion_order)

MiddleTimeTwoPk(evo_time, expansion_order) == MulOneMinus2Pk(evo_time, expansion_order)

\* the time handed to the middle call
MiddleTime(evo_time, expansion_order) == MulOneMinus4Pk(evo_time, expansion_order)

\* the order handed to the call for half
HalfOrder(expansion_order) == expansion_order - 1

SubOrderLessOne(expansion_order) == expansion_order - 1

\* the order handed to the calls for side and middle
SubOrder(expansion_order) == expansion_order - 2

SideEachDoubled(returned) == EachRepeated(2, returned)

\* side = 2 * <returned list>
SideOf(returned) == ListRepeat(2, returned)

\* The value _recursive_expansion returns, where its recursion ends
\* (expansion_order >= 1).
RECURSIVE RecursiveExpansion(_, _, _, _)
RecursiveExpansion(op_list, evo_time, expansion_order, r) ==
    IF expansion_order = 1
    THEN BaseCase(op_list, evo_time, r)
    ELSE IF expansion_order = 2
    THEN Order2Result(
            RecursiveExpansion(op_list, HalfTime(evo_time),
                               HalfOrder(expansion_order), r))
    ELSE HigherResult(
            SideOf(RecursiveExpansion(op_list, SideTime(evo_time, expansion_order),
                                      SubOrder(expansion_order), r)),
            RecursiveExpansion(op_list, MiddleTime(evo_time, expansion_order),
                               SubOrder(expansion_order), r))

\* ------------------------------------- operator library used by convert
\* ComposedOp(oplist)
ComposedOp(oplist) == [oplist |-> oplist]

\* composed.power(n): the composition of n copies of composed
Power(composed, n) == ComposedOp([i \in 1..n |-> composed])

\* the factors of ops[lo..hi], those of nested compositions in their place
RECURSIVE FlattenAll(_, _, _)
FlattenAll(ops, lo, hi) ==
    IF lo > hi THEN << >>
    ELSE IF lo = hi
    THEN (IF "oplist" \in DOMAIN ops[lo]
          THEN FlattenAll(ops[lo].oplist, 1, Len(ops[lo].oplist))
          ELSE << ops[lo] >>)
    ELSE LET mid == (lo + hi) \div 2
         IN  FlattenAll(ops, lo, mid) \o FlattenAll(ops, mid + 1, hi)

\* composed.reduce(): nested compositions become one
Reduce(composed) == ComposedOp(FlattenAll(composed.oplist, 1, Len(composed.oplist)))

ConvertWithoutPower(comp, r) == Reduce(ComposedOp(comp))

\* ComposedOp(comp_list).power(self.reps).reduce()
ConvertResult(comp, r) == Reduce(Power(ComposedOp(comp), r))

\* ------------------------------------------------------------------- state
VARIABLES
    order,      \* self._order
    reps,       \* self.reps
    pc,         \* "idle", "recursing", "done"
    operator,   \* the argument of the running convert
    stack,      \* frames of _recursive_expansion, outermost first
    ret,        \* the value the innermost finished call returned
    comp_list,  \* convert's local
    result,     \* what convert returned
    err,        \* the exception convert raised, "none" if none
    calls,      \* calls of _recursive_expansion made by convert itself
    last        \* the arguments of the call that returned ret

vars == << order, reps, pc, operator, stack, ret, comp_list, result, err, calls,
          last >>

NoOperator == [kind |-> "none", oplist |-> << >>, coeff |-> 0]
NoRet == [set |-> FALSE, val |-> << >>]
NoResult == [oplist |-> << >>]
NoCall == [expansion_order |-> 0, evo_time |-> TopTime(0)]
Args(frame) == [expansion_order |-> frame.expansion_order, evo_time |-> frame.evo_time]

\* The operands handed to convert.  oplist is what `for op in op_list` yields:
\* operator.oplist of a SummedOp, the terms of a PauliSumOp.
Operators ==
    { [kind |-> kd, oplist |-> l, coeff |-> c] :
        kd \in {"SummedOp", "PauliSumOp"}, l \in SeqsUpTo(TermPool, MaxTerms),
        c \in Coeffs }
    \cup { [kind |-> "Other", oplist |-> << >>, coeff |-> c] : c \in Coeffs }

Frame(evo_time, expansion_order) ==
    [expansion_order |-> expansion_order, evo_time |-> evo_time,
     at |-> "entry", side |-> << >>]

Top == stack[Len(stack)]
Pop == SubSeq(stack, 1, Len(stack) - 1)
\* the caller moves to position `at` and the callee's frame is pushed
PushFrom(at, side, frame) ==
    Append([stack EXCEPT ![Len(stack)].at = at, ![Len(stack)].side = side], frame)

\* Suzuki(reps, order)
Init ==
    /\ order \in Orders
    /\ reps \in 1..MaxReps
    /\ pc = "idle"
    /\ operator = NoOperator
    /\ stack = << >>
    /\ ret = NoRet
    /\ comp_list = << >>
    /\ result = NoResult
    /\ err = "none"
    /\ calls = 0
    /\ last = NoCall

\* order.setter
SetOrder(o) ==
    /\ pc = "idle"
    /\ order' = o
    /\ UNCHANGED << reps, pc, operator, stack, ret, comp_list, result, err, calls, last >>

ConvertChecksLate(op) ==
    /\ pc = "idle"
    /\ operator' = op
    /\ stack' = << Frame(TopTime(op.coeff), order) >>
    /\ calls' = calls + 1
    /\ pc' = "recursing"
    /\ UNCHANGED << order, reps, ret, comp_list, result, err, last >>

\* convert, up to the call of _recursive_expansion
ConvertEnter(op) ==
    /\ pc = "idle"
    /\ operator' = op
    /\ IF op.kind \notin {"SummedOp", "PauliSumOp"}
       THEN /\ err' = "TypeError"
            /\ pc' = "done"
            /\ UNCHANGED << stack, calls >>
       ELSE /\ stack' = << Frame(TopTime(op.coeff), order) >>
            /\ calls' = calls + 1
            /\ pc' = "recursing"
            /\ UNCHANGED err
    /\ UNCHANGED << order, reps, ret, comp_list, result, last >>

\* expansion_order == 1
RecBase ==
    /\ pc = "recursing" /\ stack # << >>
    /\ Top.at = "entry" /\ Top.expansion_order = 1
    /\ ret' = [set |-> TRUE, val |-> BaseCase(operator.oplist, Top.evo_time, reps)]
    /\ stack' = Pop
    /\ last' = Args(Top)
    /\ UNCHANGED << order, reps, pc, operator, comp_list, result, err, calls >>

\* expansion_order == 2: the call for half
RecCallHalf ==
    /\ pc = "recursing" /\ stack # << >>
    /\ Top.at = "entry" /\ Top.expansion_order = 2
    /\ Len(stack) < RecursionLimit
    /\ stack' = PushFrom("half", << >>,
                    Frame(HalfTime(Top.evo_time), HalfOrder(Top.expansion_order)))
    /\ UNCHANGED << order, reps, pc, operator, ret, comp_list, result, err, calls, last >>

\* expansion_order == 2: the return
RecReturnOrder2 ==
    /\ pc = "recursing" /\ stack # << >>
    /\ Top.at = "half" /\ ret.set
    /\ ret' = [set |-> TRUE, val |-> Order2Result(ret.val)]
    /\ stack' = Pop
    /\ last' = Args(Top)
    /\ UNCHANGED << order, reps, pc, operator, comp_list, result, err, calls >>

\* else: the call for side
RecCallSide ==
    /\ pc = "recursing" /\ stack # << >>
    /\ Top.at = "entry" /\ Top.expansion_order \notin {1, 2}
    /\ Len(stack) < RecursionLimit
    /\ stack' = PushFrom("side", << >>,
                    Frame(SideTime(Top.evo_time, Top.expansion_order),
                          SubOrder(Top.expansion_order)))
    /\ UNCHANGED << order, reps, pc, operator, ret, comp_list, result, err, calls, last >>

\* else: side is bound, the call for middle
RecCallMiddle ==
    /\ pc = "recursing" /\ stack # << >>
    /\ Top.at = "side" /\ ret.set
    /\ stack' = PushFrom("middle", SideOf(ret.val),
                    Frame(MiddleTime(Top.evo_time, Top.expansion_order),
                          SubOrder(Top.expansion_order)))
    /\ ret' = NoRet
    /\ last' = NoCall
    /\ UNCHANGED << order, reps, pc, operator, comp_list, result, err, calls >>

\* else: the return
RecReturnHigher ==
    /\ pc = "recursing" /\ stack # << >>
    /\ Top.at = "middle" /\ ret.set
    /\ ret' = [set |-> TRUE, val |-> HigherResult(Top.side, ret.val)]
    /\ stack' = Pop
    /\ last' = Args(Top)
    /\ UNCHANGED << order, reps, pc, operator, comp_list, result, err, calls >>

\* a call beyond the interpreter's recursion limit raises RecursionError,
\* which nothing between the call and convert's caller catches
RecursionOverflow ==
    /\ pc = "recursing" /\ stack # << >>
    /\ Top.at = "entry" /\ Top.expansion_order # 1
    /\ Len(stack) >= RecursionLimit
    /\ err' = "RecursionError"
    /\ stack' = << >>
    /\ pc' = "done"
    /\ UNCHANGED << order, reps, operator, ret, comp_list, result, calls, last >>

\* convert, after _recursive_expansion returned
ConvertFinish ==
    /\ pc = "recursing" /\ stack = << >> /\ ret.set
    /\ comp_list' = ret.val
    /\ result' = ConvertResult(ret.val, reps)
    /\ ret' = NoRet
    /\ pc' = "done"
    /\ last' = NoCall
    /\ UNCHANGED << order, reps, operator, stack, err, calls >>

\* convert's caller has the result or the exception; the object is idle again
Return ==
    /\ pc = "done"
    /\ pc' = "idle"
    /\ operator' = NoOperator
    /\ comp_list' = << >>
    /\ result' = NoResult
    /\ err' = "none"
    /\ calls' = 0
    /\ UNCHANGED << order, reps, stack, ret, last >>

Step ==
    \/ RecBase
    \/ RecCallHalf
    \/ RecReturnOrder2
    \/ RecCallSide
    \/ RecCallMiddle
    \/ RecReturnHigher
    \/ RecursionOverflow
    \/ ConvertFinish

Next ==
    \/ \E o \in Orders : SetOrder(o)
    \/ \E op \in Operators : ConvertEnter(op)
    \/ Step
    \/ Return

Spec == Init /\ [][Next]_vars

\* convert runs to its end once called: nothing suspends it
FairSpec == Spec /\ WF_vars(Step)

TypeOK ==
    /\ order \in Orders
    /\ reps \in 1..MaxReps
    /\ pc \in {"idle", "recursing", "done"}
    /\ err \in {"none", "TypeError", "RecursionError"}
    /\ Len(stack) <= RecursionLimit

\* ------------------------------------------------- values of the scalars
\* Exact rationals << n, d >>, d > 0, in lowest terms.
RECURSIVE GCD(_, _)
GCD(a, b) == IF b = 0 THEN a ELSE GCD(b, a % b)
Abs(a) == IF a < 0 THEN 0 - a ELSE a
RatNorm(n, d) ==
    LET s == IF d < 0 THEN 0 - 1 ELSE 1
        g == GCD(Abs(n), Abs(d))
    IN  << (s * n) \div g, (s * d) \div g >>
RatMul(a, b) ==
    LET g1 == GCD(Abs(a[1]), b[2])
        g2 == GCD(Abs(b[1]), a[2])
    IN  RatNorm((a[1] \div g1) * (b[1] \div g2), (a[2] \div g2) * (b[2] \div g1))
RatAdd(a, b) ==
    LET g == GCD(a[2], b[2])
    IN  RatNorm(a[1] * (b[2] \div g) + b[1] * (a[2] \div g), (a[2] \div g) * b[2])

\* Values given to p_k.  Valuation 1 is (4 - 4 ** (1 / (2k - 1))) ** -1 to two
\* decimals; 2 and 3 are other values, one of them negative.
Valuations == 1..3
PkValue(v, k) ==
    IF v = 1
    THEN CASE k = 3 -> << 37, 100 >>
           [] k = 4 -> << 9, 25 >>
           [] k = 5 -> << 7, 20 >>
           [] k = 6 -> << 7, 20 >>
           [] k = 7 -> << 7, 20 >>
           [] k = 8 -> << 17, 50 >>
           [] OTHER -> << 1, 3 >>
    ELSE IF v = 2 THEN RatNorm(k, 7)
    ELSE << 0 - 1, 2 >>

StepValue(e, v) ==
    CASE e.op = "div_2" -> << 1, 2 >>
      [] e.op = "mul_p_k" -> PkValue(v, e.k)
      [] e.op = "mul_1_minus_4_p_k" ->
            RatAdd(<< 1, 1 >>, RatMul(<< 0 - 4, 1 >>, PkValue(v, e.k)))
      [] e.op = "mul_1_minus_2_p_k" ->
            RatAdd(<< 1, 1 >>, RatMul(<< 0 - 2, 1 >>, PkValue(v, e.k)))

RECURSIVE PathValue(_, _)
PathValue(path, v) ==
    IF path = << >> THEN << 1, 1 >>
    ELSE RatMul(StepValue(Head(path), v), PathValue(Tail(path), v))

TimeValue(evo_time, v) == RatMul(<< evo_time.base, 1 >>, PathValue(evo_time.path, v))

\* the scalar a factor's term was multiplied by
FactorTime(f, v) == RatMul(TimeValue(f.exp_i.scalar.num, v), << 1, f.exp_i.scalar.den >>)

FactorTerm(f) == [g |-> f.exp_i.g, w |-> f.exp_i.w]

\* the sum of the times of the factors of term among l[lo..hi]
RECURSIVE TimeSumRange(_, _, _, _, _)
TimeSumRange(l, lo, hi, term, v) ==
    IF lo > hi THEN << 0, 1 >>
    ELSE IF lo = hi
    THEN (IF FactorTerm(l[lo]) = term THEN FactorTime(l[lo], v) ELSE << 0, 1 >>)
    ELSE LET mid == (lo + hi) \div 2
         IN  RatAdd(TimeSumRange(l, lo, mid, term, v),
                    TimeSumRange(l, mid + 1, hi, term, v))

TimeSum(l, term, v) == TimeSumRange(l, 1, Len(l), term, v)

Occurrences(l, x) == Cardinality({ i \in 1..Len(l) : l[i] = x })
FactorsOf(l, term) == Cardinality({ i \in 1..Len(l) : FactorTerm(l[i]) = term })

\* ------------------------------------------------------------------ claims
ValidOrder(k) == k = 1 \/ (k >= 2 /\ k % 2 = 0)
IsSum == operator.kind \in {"SummedOp", "PauliSumOp"}
Returned == pc = "recursing" /\ ret.set
Succeeded == pc = "done" /\ err = "none"
ExampleTerms == << [g |-> "X", w |-> 1], [g |-> "Z", w |-> 2] >>

\* The factor exp(i * term * t / r), written out.
FactorAt(term, t, r) ==
    [exp_i |-> [g |-> term.g, w |-> term.w, scalar |-> [num |-> t, den |-> r]]]

\* C1: a call with expansion_order = 1 returns one factor per term of op_list,
\* in the order of op_list, the i-th being exp(i * op_list[i] * evo_time / reps).
C1_Order1InTermOrder ==
    (Returned /\ last.expansion_order = 1) =>
        /\ Len(ret.val) = Len(operator.oplist)
        /\ \A i \in 1..Len(operator.oplist) :
              ret.val[i] = FactorAt(operator.oplist[i], last.evo_time, reps)

C1_Witness ==
    /\ Returned /\ last.expansion_order = 1 /\ stack = << >>
    /\ operator.oplist = ExampleTerms /\ operator.coeff = 2 /\ reps = 1
    /\ ret.val = << FactorAt(ExampleTerms[1], TopTime(2), 1),
                    FactorAt(ExampleTerms[2], TopTime(2), 1) >>

\* C2: a call with expansion_order = 2 returns reverse(half) ++ half, half being
\* the order-1 expansion at half the call's time.
C2_Order2ReverseHalfThenHalf ==
    (Returned /\ last.expansion_order = 2) =>
        LET half == [i \in 1..Len(operator.oplist) |->
                        FactorAt(operator.oplist[i], Half(last.evo_time), reps)]
        IN  ret.val = [i \in 1..(2 * Len(half)) |->
                          IF i <= Len(half) THEN half[Len(half) + 1 - i]
                          ELSE half[i - Len(half)]]

C2_Witness ==
    /\ Returned /\ last.expansion_order = 2 /\ stack = << >>
    /\ operator.oplist = ExampleTerms /\ operator.coeff = 2 /\ reps = 1
    /\ ret.val = << FactorAt(ExampleTerms[2], Half(TopTime(2)), 1),
                    FactorAt(ExampleTerms[1], Half(TopTime(2)), 1),
                    FactorAt(ExampleTerms[1], Half(TopTime(2)), 1),
                    FactorAt(ExampleTerms[2], Half(TopTime(2)), 1) >>

\* C3: a call with an even expansion_order k > 2 returns
\* side ++ side ++ middle ++ side ++ side, side and middle being the order k-2
\* expansions at evo_time * p_k and evo_time * (1 - 4 p_k).
C3_FiveBlocks ==
    (Returned /\ last.expansion_order > 2 /\ last.expansion_order % 2 = 0) =>
        LET k == last.expansion_order
            side == RecursiveExpansion(operator.oplist, MulPk(last.evo_time, k),
                                       k - 2, reps)
            middle == RecursiveExpansion(operator.oplist,
                                         MulOneMinus4Pk(last.evo_time, k), k - 2, reps)
        IN  ret.val = side \o side \o middle \o side \o side

C3_Witness ==
    /\ Returned /\ last.expansion_order = 4 /\ Len(operator.oplist) = 2
    /\ operator.oplist[1] # operator.oplist[2]
    /\ Len(ret.val) = 20
    /\ ret.val[1] # ret.val[2] /\ ret.val[1] = ret.val[5]

\* C4: with reps = r, convert returns the reduction of r copies, one after the
\* other, of the single-slice list; convert calls the recursion once, with the
\* operand's coefficient, and every factor carries that time divided by r once.
C4_RepetitionLaw ==
    Succeeded =>
        LET single == RecursiveExpansion(operator.oplist, TopTime(operator.coeff),
                                         order, reps)
        IN  /\ calls = 1
            /\ comp_list = single
            /\ Len(result.oplist) = reps * Len(single)
            /\ \A c \in 0..(reps - 1) : \A j \in 1..Len(single) :
                  /\ result.oplist[c * Len(single) + j] = single[j]
                  /\ single[j].exp_i.scalar.den = reps
                  /\ single[j].exp_i.scalar.num.base = operator.coeff

C4_Witness ==
    /\ Succeeded /\ reps = 2 /\ order = 2 /\ Len(operator.oplist) = 2
    /\ Len(result.oplist) = 8
    /\ result.oplist[1] # result.oplist[2]
    /\ result.oplist[5] = result.oplist[1]

\* C5: convert with an odd order > 1 raises ValueError and returns nothing.
C5_OddOrderRejected ==
    (pc = "done" /\ IsSum /\ order > 1 /\ order % 2 = 1) =>
        (err = "ValueError" /\ result = NoResult)

\* C6: convert with order < 1 raises ValueError, and the recursion is never
\* entered with such an order.
C6_LowOrderRejected ==
    (IsSum /\ order < 1) =>
        /\ stack = << >>
        /\ pc = "done" => (err = "ValueError" /\ result = NoResult)

\* C7: convert of an operand that is neither a SummedOp nor a PauliSumOp raises
\* TypeError before the recursion is called and before anything is composed.
C7_TypeErrorFirst ==
    (pc # "idle" /\ ~IsSum) =>
        /\ pc = "done" /\ err = "TypeError"
        /\ calls = 0 /\ stack = << >> /\ ~ret.set
        /\ comp_list = << >> /\ result = NoResult

C7_Witness ==
    /\ pc = "done" /\ operator.kind = "Other" /\ err = "TypeError" /\ calls = 0

\* C8: a call with an even expansion_order >= 2 returns a palindrome.
C8_Palindrome ==
    (Returned /\ last.expansion_order >= 2 /\ last.expansion_order % 2 = 0) =>
        \A j \in 1..Len(ret.val) : ret.val[j] = ret.val[Len(ret.val) + 1 - j]

C8_Witness ==
    /\ Returned /\ last.expansion_order = 6 /\ stack = << >>
    /\ Len(operator.oplist) = 2 /\ operator.oplist[1] # operator.oplist[2]
    /\ Len(ret.val) = 100
    /\ ret.val[1] # ret.val[2]
    /\ ret.val[1].exp_i.scalar # ret.val[41].exp_i.scalar

\* C9: with a valid order, every call made by a call has a smaller order that
\* is 1 or even, order 1 is called only from order 2, the nesting never
\* exceeds the order, and the call returns.
C9_StackShape ==
    (pc = "recursing" /\ ValidOrder(order)) =>
        /\ Len(stack) <= order
        /\ \A i \in 1..Len(stack) :
              /\ ValidOrder(stack[i].expansion_order)
              /\ i = 1 => stack[i].expansion_order = order
              /\ i > 1 =>
                    /\ stack[i].expansion_order < stack[i - 1].expansion_order
                    /\ stack[i].expansion_order = 1 =>
                          stack[i - 1].expansion_order = 2

C9_Terminates ==
    /\ []C9_StackShape
    /\ (pc = "recursing" /\ ValidOrder(order))
          ~> (pc = "done" /\ err = "none" /\ comp_list # << >>)

C9_Witness ==
    /\ pc = "recursing" /\ order = 6 /\ Len(stack) = 4
    /\ stack[4].expansion_order = 1 /\ stack[3].expansion_order = 2

\* C10: in the list a call with a valid order returns, the times of the
\* factors of a term sum to the call's time / reps for each place the term has
\* in op_list, whatever the value of p_k, and every place of op_list has the
\* same number of factors.
C10_TimeConserved ==
    (Returned /\ ValidOrder(last.expansion_order)) =>
        \A i \in 1..Len(operator.oplist) :
            LET term == operator.oplist[i]
                n == Occurrences(operator.oplist, term)
            IN  /\ FactorsOf(ret.val, term) * Len(operator.oplist)
                      = n * Len(ret.val)
                /\ \A v \in Valuations :
                      TimeSum(ret.val, term, v)
                          = RatMul(<< n, reps >>, TimeValue(last.evo_time, v))

C10_Witness ==
    /\ Returned /\ last.expansion_order = 6 /\ stack = << >>
    /\ operator.oplist = ExampleTerms /\ reps = 2 /\ operator.coeff = 1
    /\ TimeSum(ret.val, ExampleTerms[1], 1) = << 1, 2 >>
    /\ FactorsOf(ret.val, ExampleTerms[1]) = 50
=============================================================================
